---- MODULE Spec2Model ----
(***************************************************************************)
(* Istanbul consensus core: admission of consensus messages (checkMessage) *)
(* and the backlog of future messages (storeBacklog, processBacklog).      *)
(***************************************************************************)
EXTENDS Integers, Sequences, FiniteSets, Bags, TLC

VARIABLES
    backlogBySeq,       \* c.backlogBySeq: sequence -> queue (a bag of [msg, priority])
    backlogCountByVal,  \* c.backlogCountByVal: address -> int
    backlogTotal,       \* c.backlogTotal
    backlogsMu,         \* c.backlogsMu: "free" or "held"
    walk,               \* processBacklog's position: the sequences left of its range loop
    curSequence,        \* c.currentView().Sequence
    curRound,           \* c.currentView().Round
    desiredRound,       \* c.current.DesiredRound()
    state,              \* c.state
    lastSubject,        \* the answer of c.backend.LastSubject()
    valSet,             \* c.valSet
    posted,             \* the events of the running/last processBacklog, in the order of its go statements
    bus,                \* arrival order at the event bus: indices into posted
    ret,                \* what the last completed handler was and did
    checked,            \* the last checkMessage call: its arguments and its answer
    backlogForSeq,      \* one per-sequence queue followed pop by pop: its items and the items popped
    consumer,           \* the thread behind the event bus: its position and the events it has taken
    ms,                 \* a messageSetImpl: its valSet and its messages (address -> message)
    raw,                \* the RLP encoding of ms: valSet, messageKeys, messageValues
    result,             \* the messageSetImpl decoded from raw
    err,                \* the last call on ms and the error it returned
    calls,              \* the Add and Remove calls made on ms, in order
    gasPriceFloorCache, \* gasprice.gasPriceFloorCache: currency -> floor
    cacheHeaderHash,    \* gasprice.cacheHeaderHash
    currentHeaderHash,  \* iEvmH.CurrentHeader().Hash()
    gasPriceFloor       \* the last GetGasPriceFloor call: its argument and what it returned

vars == <<backlogBySeq, backlogCountByVal, backlogTotal, backlogsMu, walk, curSequence,
          curRound, desiredRound, state, lastSubject, valSet, posted, bus, ret, checked,
          backlogForSeq, consumer, ms, raw, result, err, calls,
          gasPriceFloorCache, cacheHeaderHash, currentHeaderHash, gasPriceFloor>>

backlogVars == <<backlogBySeq, backlogCountByVal, backlogTotal>>
engineVars == <<curSequence, curRound, desiredRound, state, lastSubject, valSet>>
messageSetVars == <<ms, raw, result, err, calls>>
gaspriceVars == <<gasPriceFloorCache, cacheHeaderHash, currentHeaderHash, gasPriceFloor>>
restVars == <<messageSetVars, gaspriceVars>>
coreVars == <<backlogVars, backlogsMu, walk, engineVars, posted, bus, ret, checked,
              backlogForSeq, consumer>>

----------------------------------------------------------------------------
(* Bounds of the model *)

MaxSeq == 3          \* the engine decides sequences 1..MaxSeq
MaxRound == 1        \* the engine's rounds are 0..MaxRound
CheckSeqSpan == 12   \* checkMessage is applied to sequences 0..MaxSeq+CheckSeqSpan
CheckRoundSpan == 2  \* and to rounds 0..MaxRound+CheckRoundSpan
ReplaySeq == 2       \* the sequence whose replay is followed message by message
MaxQueue == 3        \* the queue followed pop by pop holds at most MaxQueue items

----------------------------------------------------------------------------
(* Program constants.  The three backlog quotas are scaled down (1000,     *)
(* 10 * 1000 and 100 in the source) keeping batch < per-validator < total  *)
(* and total < 2 validators' worth of messages.                            *)

acceptMaxFutureSequence == 10
acceptMaxFutureMsgsFromOneValidator == 2
acceptMaxFutureMessages == 4
acceptMaxFutureMessagesPruneBatch == 1

\* Width of the machine words of toPriority (uint64/int64 in the source; TLC's
\* integers are 32 bits wide, so the words are modelled WordBits wide).
WordBits == 16

\* istanbul message codes
MsgPreprepare == 0
MsgPrepare == 1
MsgCommit == 2
MsgRoundChange == 3
MsgCodes == {MsgPreprepare, MsgPrepare, MsgCommit, MsgRoundChange}

\* an absent *big.Int
Nil == -1

States == {"StateAcceptRequest", "StatePreprepared", "StatePrepared", "StateCommitted",
           "StateWaitingForNewRound"}

\* c.Address() and the other validators
Address == "self"
Validators == {"self", "v1", "v2"}

----------------------------------------------------------------------------
(* Views *)

View(s, r) == [present |-> TRUE, Sequence |-> s, Round |-> r]
NilView == [present |-> FALSE, Sequence |-> Nil, Round |-> Nil]

currentView == View(curSequence, curRound)

\* istanbul.View.Cmp: sequence first, then round
ViewCmp(a, b) ==
    IF a.Sequence # b.Sequence
    THEN (IF a.Sequence < b.Sequence THEN -1 ELSE 1)
    ELSE IF a.Round # b.Round
         THEN (IF a.Round < b.Round THEN -1 ELSE 1)
         ELSE 0

----------------------------------------------------------------------------
(* checkMessage *)

invalidView_IgnoresRound(view) == ~view.present \/ view.Sequence = Nil

\* line 90: the view, its sequence or its round is absent
invalidView(view) == ~view.present \/ view.Sequence = Nil \/ view.Round = Nil

\* line 95: more than acceptMaxFutureSequence sequences ahead
tooFarInTheFuture_AtHorizon(view) == view.Sequence >= curSequence + acceptMaxFutureSequence
tooFarInTheFuture(view) == view.Sequence > curSequence + acceptMaxFutureSequence

\* lines 100-107: round change messages
checkRoundChange_ByCurrentRound(view) ==
    IF view.Sequence > curSequence THEN "errFutureMessage"
    ELSE IF view.Round < curRound THEN "errOldMessage"
    ELSE "nil"
checkRoundChange(view) ==
    IF view.Sequence > curSequence THEN "errFutureMessage"
    ELSE IF view.Round < desiredRound THEN "errOldMessage"
    ELSE "nil"

\* lines 116-128: a view before the current one; the error of c.backend.LastSubject()
\* is returned as it is
checkOldView_AnyKind(msgCode, view) ==
    IF ~lastSubject.ok THEN "errLastSubject"
    ELSE IF ViewCmp(view, lastSubject.View) = 0 THEN "nil"
    ELSE "errOldMessage"
checkOldView(msgCode, view) ==
    IF msgCode = MsgCommit
    THEN (IF ~lastSubject.ok THEN "errLastSubject"
          ELSE IF ViewCmp(view, lastSubject.View) = 0 THEN "nil"
          ELSE "errOldMessage")
    ELSE "errOldMessage"

\* lines 130-146: the current view, gated on c.state
checkSameView_AcceptsAll(msgCode) ==
    IF state = "StateWaitingForNewRound" THEN "errFutureMessage"
    ELSE "nil"
checkSameView(msgCode) ==
    IF state = "StateWaitingForNewRound" THEN "errFutureMessage"
    ELSE IF state = "StateAcceptRequest"
    THEN (IF msgCode > MsgPreprepare THEN "errFutureMessage" ELSE "nil")
    ELSE "nil"

checkMessage(msgCode, view) ==
    IF invalidView(view) THEN "errInvalidMessage"
    ELSE IF tooFarInTheFuture(view) THEN "errTooFarInTheFutureMessage"
    ELSE IF msgCode = MsgRoundChange THEN checkRoundChange(view)
    ELSE IF ViewCmp(view, currentView) > 0 THEN "errFutureMessage"
    ELSE IF ViewCmp(view, currentView) < 0 THEN checkOldView(msgCode, view)
    ELSE checkSameView(msgCode)

----------------------------------------------------------------------------
(* The engine's round state, as the handlers read it *)

EngineStates ==
    {e \in [curSequence : 1..MaxSeq, curRound : 0..MaxRound, desiredRound : 0..MaxRound,
            state : States] :
        /\ e.desiredRound >= e.curRound
        /\ (e.state = "StateWaitingForNewRound") <=> (e.desiredRound > e.curRound)}

LastSubjects(seq) ==
    {[ok |-> TRUE, View |-> View(seq - 1, r)] : r \in 0..MaxRound}
        \cup {[ok |-> FALSE, View |-> NilView]}

NoCheck == [called |-> FALSE, msgCode |-> MsgPreprepare, view |-> NilView, err |-> "nil",
            again |-> FALSE, err2 |-> "nil"]
NoMessage == [Address |-> "none", Code |-> MsgPreprepare, View |-> NilView]
NoRet == [op |-> "none", pruneRan |-> FALSE, stale |-> {}, dropped |-> "none", msg |-> NoMessage,
          skipped |-> {}]
NoQueue == [queue |-> EmptyBag, popped |-> << >>]

NoConsumer == [pc |-> "idle", taken |-> 0]

\* part_001 lines 134-140: newMessageSet
newMessageSet(vs) == [valSet |-> vs, messages |-> [a \in {} |-> NoMessage]]
NoRaw == [valSet |-> {}, messageKeys |-> << >>, messageValues |-> << >>]
NoErr == [op |-> "none", err |-> "nil"]
\* access_gasprice.go lines 105-106: an empty cache, the zero hash
ZeroHash == 0
\* a floor is told by the header whose state the oracle read and by the currency
NoFloor == [header |-> ZeroHash, currency |-> "none"]
NoCall == [pc |-> "idle", currency |-> "none", value |-> NoFloor, err |-> "nil",
           cached |-> FALSE]

\* the message set and the gas-price cache as constructed
InitRest ==
    /\ ms = newMessageSet(Validators)
    /\ raw = NoRaw
    /\ result = newMessageSet({})
    /\ err = NoErr
    /\ calls = << >>
    /\ gasPriceFloorCache = [c \in {} |-> NoFloor]
    /\ cacheHeaderHash = ZeroHash
    /\ currentHeaderHash = 1
    /\ gasPriceFloor = NoCall

InitBacklog ==
    /\ backlogBySeq = [k \in {} |-> EmptyBag]
    /\ backlogCountByVal = [a \in Validators |-> 0]
    /\ backlogTotal = 0
    /\ backlogsMu = "free"
    /\ walk = << >>
    /\ posted = << >>
    /\ bus = << >>
    /\ ret = NoRet
    /\ checked = NoCheck
    /\ backlogForSeq = NoQueue
    /\ consumer = NoConsumer
    /\ InitRest

----------------------------------------------------------------------------
(* Priorities and the per-sequence queues *)

msgPriority_CommitLast(msgCode) ==
    CASE msgCode = MsgPreprepare -> 1
      [] msgCode = MsgCommit -> 3
      [] msgCode = MsgPrepare -> 2
      [] OTHER -> 0

\* msgPriority: a Go map, 0 for a code it does not hold
msgPriority(msgCode) ==
    CASE msgCode = MsgPreprepare -> 1
      [] msgCode = MsgCommit -> 2
      [] msgCode = MsgPrepare -> 3
      [] OTHER -> 0

Modulus == 2 ^ WordBits
\* big.Int.Uint64 and uint64 arithmetic: the low WordBits bits
uint64(x) == x % Modulus
\* int64(x) of an unsigned word: two's complement
int64(x) == IF x >= Modulus \div 2 THEN x - Modulus ELSE x
\* unary minus on a signed word: the least value is its own negation
neg(x) == IF x = 0 - (Modulus \div 2) THEN x ELSE 0 - x

toPriority_RoundUnweighted(msgCode, view) ==
    IF msgCode = MsgRoundChange
    THEN 0
    ELSE neg(int64(uint64(uint64(view.Round) + msgPriority(msgCode))))

toPriority_Unsigned(msgCode, view) ==
    IF msgCode = MsgRoundChange
    THEN 0
    ELSE int64(uint64(uint64(view.Round) * 10 + msgPriority(msgCode)))

toPriority(msgCode, view) ==
    IF msgCode = MsgRoundChange
    THEN 0
    ELSE neg(int64(uint64(uint64(view.Round) * 10 + msgPriority(msgCode))))

Message(a, code, view) == [Address |-> a, Code |-> code, View |-> view]
Item(msg) == [msg |-> msg, priority |-> toPriority(msg.Code, msg.View)]

\* prque.PopItem: an item of the greatest priority; the order among equal
\* priorities is the heap's, which the code does not fix
PopChoices(q) == {i \in BagToSet(q) : \A j \in BagToSet(q) : j.priority <= i.priority}

\* the orders in which the loop of drainBacklogForSeq can pop a queue
RECURSIVE PopOrders(_)
PopOrders(q) ==
    IF BagToSet(q) = {}
    THEN {<< >>}
    ELSE UNION {{<<i>> \o rest : rest \in PopOrders(q (-) SetToBag({i}))} : i \in PopChoices(q)}

----------------------------------------------------------------------------
(* The backlog: queues and counters, as one value *)

Backlog == [bySeq |-> backlogBySeq, countByVal |-> backlogCountByVal, total |-> backlogTotal]

SetBacklog(b) ==
    /\ backlogBySeq' = b.bySeq
    /\ backlogCountByVal' = b.countByVal
    /\ backlogTotal' = b.total

RECURSIVE SortAsc(_)
SortAsc(S) ==
    IF S = {}
    THEN << >>
    ELSE LET m == CHOOSE x \in S : \A y \in S : x <= y
         IN <<m>> \o SortAsc(S \ {m})

getSortedBacklogSeqs(b) == SortAsc(DOMAIN b.bySeq)

\* the messages of address a in queue q
CountOf(q, a) ==
    LET mine == {i \in BagToSet(q) : i.msg.Address = a}
        RECURSIVE Sum(_)
        Sum(S) == IF S = {} THEN 0
                  ELSE LET i == CHOOSE x \in S : TRUE IN q[i] + Sum(S \ {i})
    IN Sum(mine)

drainBacklogForSeq_KeepsTotal(b, seq) ==
    IF seq \notin DOMAIN b.bySeq
    THEN b
    ELSE [bySeq |-> [k \in DOMAIN b.bySeq \ {seq} |-> b.bySeq[k]],
          countByVal |-> [a \in DOMAIN b.countByVal |->
                            b.countByVal[a] - CountOf(b.bySeq[seq], a)],
          total |-> b.total]

drainBacklogForSeq_KeepsKey(b, seq) ==
    IF seq \notin DOMAIN b.bySeq
    THEN b
    ELSE [bySeq |-> [k \in DOMAIN b.bySeq |-> IF k = seq THEN EmptyBag ELSE b.bySeq[k]],
          countByVal |-> [a \in DOMAIN b.countByVal |->
                            b.countByVal[a] - CountOf(b.bySeq[seq], a)],
          total |-> b.total - BagCardinality(b.bySeq[seq])]

\* drainBacklogForSeq: what is left of the backlog; every popped message takes one
\* off its address's counter and one off the total, with or without a callback
drainBacklogForSeq(b, seq) ==
    IF seq \notin DOMAIN b.bySeq
    THEN b
    ELSE [bySeq |-> [k \in DOMAIN b.bySeq \ {seq} |-> b.bySeq[k]],
          countByVal |-> [a \in DOMAIN b.countByVal |->
                            b.countByVal[a] - CountOf(b.bySeq[seq], a)],
          total |-> b.total - BagCardinality(b.bySeq[seq])]

\* line 195
overPerValidatorCap(b, msg) == b.countByVal[msg.Address] > acceptMaxFutureMsgsFromOneValidator

\* lines 199-209: count the message and push it on the queue of its sequence
pushBacklog(b, msg, src) ==
    LET seq == msg.View.Sequence
        q == IF seq \in DOMAIN b.bySeq THEN b.bySeq[seq] ELSE EmptyBag
    IN [bySeq |-> [k \in DOMAIN b.bySeq \cup {seq} |->
                        IF k = seq THEN q (+) SetToBag({Item(msg)}) ELSE b.bySeq[k]],
        countByVal |-> [b.countByVal EXCEPT ![src] = @ + 1],
        total |-> b.total + 1]

RECURSIVE pruneLoop(_, _, _)
pruneLoop_StopsAtCap(b, backlogSeqs, i) ==
    IF i <= 1
    THEN b
    ELSE IF backlogSeqs[i] <= curSequence \/ b.total <= acceptMaxFutureMessages
         THEN b
         ELSE pruneLoop(drainBacklogForSeq(b, backlogSeqs[i]), backlogSeqs, i - 1)

pruneLoop_StopsAfterOne(b, backlogSeqs, i) ==
    IF i <= 1
    THEN b
    ELSE IF backlogSeqs[i] <= curSequence
            \/ b.total < acceptMaxFutureMessages - acceptMaxFutureMessagesPruneBatch
         THEN b
         ELSE drainBacklogForSeq(b, backlogSeqs[i])

pruneLoop_DrainsLowest(b, backlogSeqs, i) ==
    IF i < 1
    THEN b
    ELSE IF backlogSeqs[i] <= curSequence
            \/ b.total < acceptMaxFutureMessages - acceptMaxFutureMessagesPruneBatch
         THEN b
         ELSE pruneLoop(drainBacklogForSeq(b, backlogSeqs[i]), backlogSeqs, i - 1)

\* lines 215-222, with i counting from 1
pruneLoop(b, backlogSeqs, i) ==
    IF i <= 1
    THEN b
    ELSE IF backlogSeqs[i] <= curSequence
            \/ b.total < acceptMaxFutureMessages - acceptMaxFutureMessagesPruneBatch
         THEN b
         ELSE pruneLoop(drainBacklogForSeq(b, backlogSeqs[i]), backlogSeqs, i - 1)

\* line 213
overTotalCap(b) == b.total > acceptMaxFutureMessages

\* lines 213-223
pruneBacklog(b) ==
    IF overTotalCap(b)
    THEN pruneLoop(b, getSortedBacklogSeqs(b), Len(getSortedBacklogSeqs(b)))
    ELSE b

\* lines 157-160
fromSelf_Never(msg) == FALSE
fromSelf(msg) == msg.Address = Address

\* msg.Decode returns an error: the payload gives no value to take a view from
Undecodable == [present |-> FALSE, Sequence |-> Nil, Round |-> 0]
\* a message code that is none of the four
MsgUnknown == 4

\* lines 162-188: msg.Decode fails under one of the four cases of the switch
decodeError(msg) == msg.Code \in MsgCodes /\ msg.View = Undecodable

\* lines 161-188: v is the view of the decoded payload; the switch has no default,
\* so v stays nil for any other code
payloadView(msg) == IF msg.Code \in MsgCodes THEN msg.View ELSE NilView

\* line 203: v.Sequence.Uint64() dereferences v and v.Sequence
nilDereference(msg) == ~payloadView(msg).present \/ payloadView(msg).Sequence = Nil

\* lines 199-200: the counters are incremented before the queue is looked up
countBacklog(b, src) ==
    [b EXCEPT !.countByVal = [@ EXCEPT ![src] = @ + 1], !.total = @ + 1]

\* storeBacklog; backlogsMu is taken at line 191 and released on return, or by the
\* deferred Unlock when line 203 panics
storeBacklog(msg, src) ==
    /\ backlogsMu = "free"
    /\ IF fromSelf(msg)
       THEN /\ UNCHANGED backlogVars
            /\ ret' = [NoRet EXCEPT !.op = "storeBacklog", !.dropped = "self"]
       ELSE IF decodeError(msg)
       THEN /\ UNCHANGED backlogVars
            /\ ret' = [NoRet EXCEPT !.op = "storeBacklog", !.dropped = "decode"]
       ELSE IF overPerValidatorCap(Backlog, msg)
       THEN /\ UNCHANGED backlogVars
            /\ ret' = [NoRet EXCEPT !.op = "storeBacklog", !.dropped = "cap"]
       ELSE IF nilDereference(msg)
       THEN /\ SetBacklog(countBacklog(Backlog, src))
            /\ ret' = [NoRet EXCEPT !.op = "panic", !.msg = msg]
       ELSE /\ SetBacklog(pruneBacklog(pushBacklog(Backlog, msg, src)))
            /\ ret' = [NoRet EXCEPT !.op = "storeBacklog",
                                    !.pruneRan = overTotalCap(pushBacklog(Backlog, msg, src)),
                                    !.msg = msg]
    /\ posted' = << >>
    /\ bus' = << >>
    /\ UNCHANGED <<backlogsMu, walk, engineVars, checked, backlogForSeq, restVars>>

----------------------------------------------------------------------------
(* processBacklog *)

admitted_OrFuture(msg) ==
    checkMessage(msg.Code, msg.View) \in {"nil", "errFutureMessage"}

\* lines 278-323: the callback posts a message when checkMessage admits it
admitted(msg) == checkMessage(msg.Code, msg.View) = "nil"

replay_WithoutLookup(order) ==
    SelectSeq([k \in 1..Len(order) |-> order[k].msg], LAMBDA m : admitted(m))

\* lines 252-257: the callback runs for the messages whose sender is in the validator set
replay(order) ==
    SelectSeq([k \in 1..Len(order) |-> order[k].msg],
              LAMBDA m : m.Address \in valSet /\ admitted(m))

\* lines 252-257, 305-316: the messages popped for which nothing is posted
skipped(q) == {i.msg : i \in {j \in BagToSet(q) : ~(j.msg.Address \in valSet /\ admitted(j.msg))}}

\* lines 266-269: take backlogsMu and evaluate the range expression
processBacklogLock ==
    /\ backlogsMu = "free"
    /\ backlogsMu' = "held"
    /\ walk' = getSortedBacklogSeqs(Backlog)
    /\ posted' = << >>
    /\ bus' = << >>
    /\ ret' = NoRet
    /\ UNCHANGED <<backlogVars, engineVars, checked, backlogForSeq, consumer, restVars>>

processBacklogStale_WithCallback ==
    /\ backlogsMu = "held"
    /\ walk # << >>
    /\ Head(walk) < curSequence
    /\ \E order \in PopOrders(backlogBySeq[Head(walk)]) :
          posted' = posted \o replay(order)
    /\ SetBacklog(drainBacklogForSeq(Backlog, Head(walk)))
    /\ ret' = [ret EXCEPT !.stale = @ \cup {Head(walk)}]
    /\ walk' = Tail(walk)
    /\ UNCHANGED <<backlogsMu, engineVars, bus, checked, backlogForSeq, consumer, restVars>>

\* lines 273-275: an earlier sequence is drained without a callback
processBacklogStale ==
    /\ backlogsMu = "held"
    /\ walk # << >>
    /\ Head(walk) < curSequence
    /\ SetBacklog(drainBacklogForSeq(Backlog, Head(walk)))
    /\ ret' = [ret EXCEPT !.stale = @ \cup {Head(walk)}]
    /\ walk' = Tail(walk)
    /\ UNCHANGED <<backlogsMu, engineVars, posted, bus, checked, backlogForSeq, consumer, restVars>>

processBacklogCurrent_AndLater ==
    /\ backlogsMu = "held"
    /\ walk # << >>
    /\ Head(walk) >= curSequence
    /\ \E order \in PopOrders(backlogBySeq[Head(walk)]) :
          posted' = posted \o replay(order)
    /\ ret' = [ret EXCEPT !.skipped = skipped(backlogBySeq[Head(walk)])]
    /\ SetBacklog(drainBacklogForSeq(Backlog, Head(walk)))
    /\ walk' = Tail(walk)
    /\ UNCHANGED <<backlogsMu, engineVars, bus, checked, backlogForSeq, consumer, restVars>>

\* the items of a queue that checkMessage calls Future
futureItems(q) ==
    [i \in {j \in BagToSet(q) : checkMessage(j.msg.Code, j.msg.View) = "errFutureMessage"}
        |-> q[i]]

\* a backlog with the items of a bag parked again on the queue of a sequence
repark(b, seq, items) ==
    IF BagToSet(items) = {}
    THEN b
    ELSE [bySeq |-> [k \in DOMAIN b.bySeq \cup {seq} |->
                        IF k = seq THEN items ELSE b.bySeq[k]],
          countByVal |-> [a \in DOMAIN b.countByVal |-> b.countByVal[a] + CountOf(items, a)],
          total |-> b.total + BagCardinality(items)]

processBacklogCurrent_ReparksFuture ==
    /\ backlogsMu = "held"
    /\ walk # << >>
    /\ Head(walk) = curSequence
    /\ \E order \in PopOrders(backlogBySeq[Head(walk)]) :
          posted' = posted \o replay(order)
    /\ ret' = [ret EXCEPT !.skipped = skipped(backlogBySeq[Head(walk)])]
    /\ SetBacklog(repark(drainBacklogForSeq(Backlog, Head(walk)), Head(walk),
                         futureItems(backlogBySeq[Head(walk)])))
    /\ walk' = Tail(walk)
    /\ UNCHANGED <<backlogsMu, engineVars, bus, checked, backlogForSeq, consumer, restVars>>

\* lines 276-323: the current sequence is drained through the callback
processBacklogCurrent ==
    /\ backlogsMu = "held"
    /\ walk # << >>
    /\ Head(walk) = curSequence
    /\ \E order \in PopOrders(backlogBySeq[Head(walk)]) :
          posted' = posted \o replay(order)
    /\ ret' = [ret EXCEPT !.skipped = skipped(backlogBySeq[Head(walk)])]
    /\ SetBacklog(drainBacklogForSeq(Backlog, Head(walk)))
    /\ walk' = Tail(walk)
    /\ UNCHANGED <<backlogsMu, engineVars, bus, checked, backlogForSeq, consumer, restVars>>

\* the events of bus taken so far; the engine's moves forget bus and the count with it
Taken == IF consumer.taken <= Len(bus) THEN consumer.taken ELSE 0

\* a post that waits for its event to be received: the return comes after the hand-over
processBacklogReturn_AfterHandover ==
    /\ backlogsMu = "held"
    /\ IF walk = << >> THEN TRUE ELSE Head(walk) > curSequence
    /\ Taken = Len(posted)
    /\ backlogsMu' = "free"
    /\ walk' = << >>
    /\ ret' = [ret EXCEPT !.op = "processBacklog"]
    /\ consumer' = [consumer EXCEPT !.pc = IF @ = "processBacklog" THEN "idle" ELSE @]
    /\ UNCHANGED <<backlogVars, engineVars, posted, bus, checked, backlogForSeq, restVars>>

\* lines 324-327 and the end of the loop: return, releasing backlogsMu
processBacklogReturn ==
    /\ backlogsMu = "held"
    /\ IF walk = << >> THEN TRUE ELSE Head(walk) > curSequence
    /\ backlogsMu' = "free"
    /\ walk' = << >>
    /\ ret' = [ret EXCEPT !.op = "processBacklog"]
    /\ consumer' = [consumer EXCEPT !.pc = IF @ = "processBacklog" THEN "idle" ELSE @]
    /\ UNCHANGED <<backlogVars, engineVars, posted, bus, checked, backlogForSeq, restVars>>

\* go c.sendEvent(...): the goroutines reach the event bus in any order
sendEvent(i) ==
    /\ i \in 1..Len(posted)
    /\ \A k \in 1..Len(bus) : bus[k] # i
    /\ bus' = Append(bus, i)
    /\ UNCHANGED <<backlogVars, backlogsMu, walk, engineVars, posted, ret, checked, backlogForSeq, consumer, restVars>>

----------------------------------------------------------------------------
(* The engine.  The handlers read the round state without synchronisation (lines  *)
(* 95-137, 217, 273): it changes between two handlers, not during one.  ret,      *)
(* posted and bus record the last handler only until the engine moves on.         *)

Forget ==
    /\ ret' = NoRet
    /\ posted' = << >>
    /\ bus' = << >>

\* the next sequence starts at round 0; the subject committed last is the view left
startNewSequence ==
    /\ backlogsMu = "free"
    /\ curSequence < MaxSeq
    /\ curSequence' = curSequence + 1
    /\ curRound' = 0
    /\ desiredRound' = 0
    /\ state' = "StateAcceptRequest"
    /\ lastSubject' = [ok |-> TRUE, View |-> currentView]
    /\ Forget
    /\ UNCHANGED <<backlogVars, backlogsMu, walk, valSet, checked, backlogForSeq, consumer, restVars>>

\* the engine asks for a later round and waits for it
waitForDesiredRound ==
    /\ backlogsMu = "free"
    /\ desiredRound < MaxRound
    /\ desiredRound' = desiredRound + 1
    /\ state' = "StateWaitingForNewRound"
    /\ Forget
    /\ UNCHANGED <<backlogVars, backlogsMu, walk, curSequence, curRound, lastSubject,
                   valSet, checked, backlogForSeq, consumer, restVars>>

\* the desired round starts
startNewRound ==
    /\ backlogsMu = "free"
    /\ state = "StateWaitingForNewRound"
    /\ curRound' = desiredRound
    /\ state' = "StateAcceptRequest"
    /\ Forget
    /\ UNCHANGED <<backlogVars, backlogsMu, walk, curSequence, desiredRound, lastSubject,
                   valSet, checked, backlogForSeq, consumer, restVars>>

\* preprepared, prepared, committed
setState ==
    /\ backlogsMu = "free"
    /\ state \in {"StateAcceptRequest", "StatePreprepared", "StatePrepared"}
    /\ state' = (CASE state = "StateAcceptRequest" -> "StatePreprepared"
                   [] state = "StatePreprepared" -> "StatePrepared"
                   [] OTHER -> "StateCommitted")
    /\ Forget
    /\ UNCHANGED <<backlogVars, backlogsMu, walk, curSequence, curRound, desiredRound,
                   lastSubject, valSet, checked, backlogForSeq, consumer, restVars>>

\* the engine parks a message of a validator when checkMessage answers Future
handleFutureMsg(msg) ==
    /\ msg.Address \in valSet
    /\ checkMessage(msg.Code, msg.View) = "errFutureMessage"
    /\ storeBacklog(msg, msg.Address)
    /\ UNCHANGED consumer

----------------------------------------------------------------------------
(* The backlog under the round-0 messages of the sequences ahead: RoundChanges of *)
(* every validator and the Preprepares of the proposer                           *)

StoreInputs ==
    {Message(a, MsgRoundChange, View(s, 0)) : a \in Validators, s \in 1..MaxSeq}
        \cup {Message("v1", MsgPreprepare, View(s, 0)) : s \in 1..MaxSeq}

Init ==
    /\ InitBacklog
    /\ curSequence = 1
    /\ curRound = 0
    /\ desiredRound = 0
    /\ state = "StateAcceptRequest"
    /\ lastSubject = [ok |-> TRUE, View |-> View(0, 0)]
    /\ valSet = Validators

Next ==
    \/ \E msg \in StoreInputs : handleFutureMsg(msg)
    \/ processBacklogLock
    \/ processBacklogStale
    \/ processBacklogCurrent
    \/ processBacklogReturn
    \/ startNewSequence
    \/ waitForDesiredRound
    \/ startNewRound
    \/ setState

Spec == Init /\ [][Next]_vars

----------------------------------------------------------------------------
(* The replay of one sequence: the proposer's Preprepares and a voter's Prepares,  *)
(* Commits and RoundChanges for ReplaySeq, parked while the engine is behind it    *)
(* and the backlog is below its total cap                                          *)

ReplayInputs ==
    {Message("v1", MsgPreprepare, View(ReplaySeq, r)) : r \in 0..MaxRound}
        \cup {Message("v2", code, View(ReplaySeq, r)) :
                code \in {MsgPrepare, MsgCommit, MsgRoundChange}, r \in 0..MaxRound}

NextReplay ==
    \/ \E msg \in ReplayInputs :
          backlogTotal < acceptMaxFutureMessages /\ handleFutureMsg(msg)
    \/ processBacklogLock
    \/ processBacklogStale
    \/ processBacklogCurrent
    \/ processBacklogReturn
    \/ \E i \in 1..Len(posted) : sendEvent(i)
    \/ startNewSequence
    \/ waitForDesiredRound
    \/ startNewRound
    \/ setState

SpecReplay == Init /\ [][NextReplay]_vars

----------------------------------------------------------------------------
(* The backlog while the engine decides every sequence in its round 0: the stores *)
(* and replays of Spec, step by step                                              *)

NextStore ==
    \/ \E msg \in StoreInputs : handleFutureMsg(msg)
    \/ processBacklogLock
    \/ processBacklogStale
    \/ processBacklogCurrent
    \/ processBacklogReturn
    \/ startNewSequence

SpecStore == Init /\ [][NextStore]_vars

----------------------------------------------------------------------------
(* storeBacklog called with any validator as its sender argument, whatever the    *)
(* address of the message, while the backlog is below its total cap               *)

SenderInputs ==
    {Message(a, MsgRoundChange, View(s, 0)) : a \in Validators \ {Address}, s \in 1..MaxSeq}

storeBacklogFrom(msg, src) ==
    /\ backlogTotal < acceptMaxFutureMessages
    /\ checkMessage(msg.Code, msg.View) = "errFutureMessage"
    /\ storeBacklog(msg, src)
    /\ UNCHANGED consumer

NextSender ==
    \/ \E msg \in SenderInputs, src \in Validators : storeBacklogFrom(msg, src)
    \/ processBacklogLock
    \/ processBacklogStale
    \/ processBacklogCurrent
    \/ processBacklogReturn
    \/ startNewSequence

SpecSender == Init /\ [][NextSender]_vars

----------------------------------------------------------------------------
(* One per-sequence queue, pushed by storeBacklog and popped by                   *)
(* drainBacklogForSeq under backlogsMu: no push falls between two pops of a drain. *)
(* The rounds are the engine's, the first round whose weighted value does not fit *)
(* a signed word, the round before it, and the round whose three weighted values  *)
(* lie across the sign bit.                                                       *)

OverflowRound == (Modulus \div 2) \div 10 + 1
SignRound == (9 * (Modulus \div 2) - 2) \div 10
PriorityRounds == (0..MaxRound) \cup {OverflowRound - 1, OverflowRound, SignRound}

PriorityInputs ==
    {Message("v1", code, View(ReplaySeq, r)) : code \in MsgCodes, r \in PriorityRounds}

\* line 209
Push(msg) ==
    /\ backlogForSeq.popped = << >>
    /\ BagCardinality(backlogForSeq.queue) < MaxQueue
    /\ backlogForSeq' = [backlogForSeq EXCEPT !.queue = @ (+) SetToBag({Item(msg)})]
    /\ UNCHANGED <<backlogVars, backlogsMu, walk, engineVars, posted, bus, ret, checked, consumer,
                   restVars>>

\* lines 249-251
PopItem ==
    /\ \E i \in PopChoices(backlogForSeq.queue) :
          backlogForSeq' = [queue |-> backlogForSeq.queue (-) SetToBag({i}),
                            popped |-> Append(backlogForSeq.popped, i)]
    /\ UNCHANGED <<backlogVars, backlogsMu, walk, engineVars, posted, bus, ret, checked, consumer,
                   restVars>>

NextPriority ==
    \/ \E msg \in PriorityInputs : Push(msg)
    \/ PopItem

SpecPriority == Init /\ [][NextPriority]_vars

----------------------------------------------------------------------------
(* checkMessage applied to every kind and view, in every engine state *)

CheckViews ==
    {View(s, r) : s \in 0..(MaxSeq + CheckSeqSpan), r \in 0..(MaxRound + CheckRoundSpan)}
        \cup {NilView, View(Nil, 0), View(1, Nil)}

InitCheck ==
    /\ InitBacklog
    /\ \E e \in EngineStates :
        /\ curSequence = e.curSequence
        /\ curRound = e.curRound
        /\ desiredRound = e.desiredRound
        /\ state = e.state
        /\ lastSubject \in LastSubjects(e.curSequence)
    /\ valSet = Validators

CheckMessage_EntersRound(msgCode, view) ==
    /\ ~checked.called
    /\ checked' = [NoCheck EXCEPT !.called = TRUE, !.msgCode = msgCode, !.view = view,
                                  !.err = checkMessage(msgCode, view)]
    /\ state' = "StatePreprepared"
    /\ UNCHANGED <<backlogVars, backlogsMu, walk, curSequence, curRound, desiredRound,
                   lastSubject, valSet, posted, bus, ret, backlogForSeq, consumer, restVars>>

CheckMessage(msgCode, view) ==
    /\ ~checked.called
    /\ checked' = [NoCheck EXCEPT !.called = TRUE, !.msgCode = msgCode, !.view = view,
                                  !.err = checkMessage(msgCode, view)]
    /\ UNCHANGED <<backlogVars, backlogsMu, walk, engineVars, posted, bus, ret, backlogForSeq, consumer, restVars>>

\* the same call once more, nothing having happened in between
CheckMessageAgain ==
    /\ checked.called
    /\ ~checked.again
    /\ checked' = [checked EXCEPT !.again = TRUE,
                                  !.err2 = checkMessage(checked.msgCode, checked.view)]
    /\ UNCHANGED <<backlogVars, backlogsMu, walk, engineVars, posted, bus, ret, backlogForSeq, consumer, restVars>>

NextCheck ==
    \/ \E msgCode \in MsgCodes, view \in CheckViews : CheckMessage(msgCode, view)
    \/ CheckMessageAgain

SpecCheck == InitCheck /\ [][NextCheck]_vars

----------------------------------------------------------------------------
(* Claims about checkMessage, on the recorded call *)

CheckedValid == checked.called /\ ~invalidView(checked.view)

\* C5 as stated: for a RoundChange at most acceptMaxFutureSequence sequences ahead,
\* checkMessage answers Future iff the sequence is above the current one, Old iff the
\* sequence equals the current one and the round is below the desired round, and
\* Admit in every other case.
C5_OldOnlyInCurrentSequence ==
    (CheckedValid /\ checked.msgCode = MsgRoundChange
        /\ checked.view.Sequence <= curSequence + acceptMaxFutureSequence)
    => checked.err =
        (IF checked.view.Sequence > curSequence THEN "errFutureMessage"
         ELSE IF checked.view.Sequence = curSequence /\ checked.view.Round < desiredRound
              THEN "errOldMessage"
         ELSE "nil")

\* C5 amended: for a RoundChange at most acceptMaxFutureSequence sequences ahead,
\* checkMessage answers Future iff the sequence is above the current one, Old iff the
\* sequence is at or below the current one and the round is below the desired round,
\* and Admit in every other case.
C5_RoundChangeOutcome ==
    (CheckedValid /\ checked.msgCode = MsgRoundChange
        /\ checked.view.Sequence <= curSequence + acceptMaxFutureSequence)
    => /\ (checked.err = "errFutureMessage") <=> (checked.view.Sequence > curSequence)
       /\ (checked.err = "errOldMessage") <=>
            (checked.view.Sequence <= curSequence /\ checked.view.Round < desiredRound)
       /\ (checked.err = "nil") <=>
            (checked.view.Sequence <= curSequence /\ checked.view.Round >= desiredRound)

C5_Witness ==
    /\ CheckedValid /\ checked.msgCode = MsgRoundChange
    /\ checked.view.Sequence < curSequence
    /\ checked.view.Round < desiredRound
    /\ checked.err = "errOldMessage"

\* C6 as stated: for a non-RoundChange message whose view is below the current view,
\* checkMessage answers Admit iff the kind is Commit and the view equals the last
\* committed subject's view, and Old otherwise.
C6_AdmitOrOld ==
    (CheckedValid /\ checked.msgCode # MsgRoundChange
        /\ ViewCmp(checked.view, currentView) < 0)
    => checked.err =
        (IF checked.msgCode = MsgCommit /\ lastSubject.ok
                /\ checked.view.Sequence = lastSubject.View.Sequence
                /\ checked.view.Round = lastSubject.View.Round
         THEN "nil" ELSE "errOldMessage")

\* C6 amended: for a non-RoundChange message whose view is below the current view,
\* checkMessage answers Admit iff the kind is Commit, the last-committed lookup
\* succeeds and the view equals the last committed subject's view; it answers the
\* lookup's own error when the kind is Commit and the lookup fails; otherwise Old.
C6_LateCommitOutcome ==
    (CheckedValid /\ checked.msgCode # MsgRoundChange
        /\ ViewCmp(checked.view, currentView) < 0)
    => checked.err =
        (IF checked.msgCode = MsgCommit /\ ~lastSubject.ok THEN "errLastSubject"
         ELSE IF checked.msgCode = MsgCommit
                /\ checked.view.Sequence = lastSubject.View.Sequence
                /\ checked.view.Round = lastSubject.View.Round
         THEN "nil" ELSE "errOldMessage")

C6_Witness ==
    /\ CheckedValid /\ checked.msgCode = MsgCommit
    /\ ViewCmp(checked.view, currentView) < 0
    /\ lastSubject.ok /\ checked.view = lastSubject.View
    /\ checked.err = "nil"

\* C7: for a non-RoundChange message at the current view, checkMessage answers Future
\* in StateWaitingForNewRound; in StateAcceptRequest Admit for Preprepare and Future
\* for Prepare and Commit; in the three other states Admit for every kind.
C7_SameViewOutcome ==
    (CheckedValid /\ checked.msgCode # MsgRoundChange
        /\ checked.view.Sequence = curSequence /\ checked.view.Round = curRound)
    => checked.err =
        (CASE state = "StateWaitingForNewRound" -> "errFutureMessage"
           [] state = "StateAcceptRequest" ->
                (IF checked.msgCode = MsgPreprepare THEN "nil" ELSE "errFutureMessage")
           [] OTHER -> "nil")

C7_Witness ==
    /\ CheckedValid /\ checked.msgCode = MsgCommit
    /\ checked.view = currentView
    /\ state = "StateAcceptRequest"
    /\ checked.err = "errFutureMessage"

\* C8: for every kind and engine state checkMessage answers TooFar exactly when the
\* view's sequence is above the current sequence plus acceptMaxFutureSequence, and
\* Future when the sequence is above the current one but within that horizon.
C8_TooFarExactlyBeyondHorizon ==
    CheckedValid
    => /\ (checked.err = "errTooFarInTheFutureMessage") <=>
            (checked.view.Sequence > curSequence + 10)
       /\ (checked.view.Sequence > curSequence /\ checked.view.Sequence <= curSequence + 10)
            => checked.err = "errFutureMessage"

C8_Witness ==
    /\ CheckedValid
    /\ checked.view.Sequence = curSequence + 10
    /\ checked.err = "errFutureMessage"

FiveOutcomes == {"nil", "errFutureMessage", "errOldMessage", "errInvalidMessage",
                 "errTooFarInTheFutureMessage"}

AbsentView(view) == ~view.present \/ view.Sequence = Nil \/ view.Round = Nil

\* C17 as stated: checkMessage answers one of Admit, Future, Old, Invalid and TooFar,
\* and Invalid whenever the view, its sequence or its round is absent.
C17_OneOfFiveOutcomes ==
    checked.called
    => /\ checked.err \in FiveOutcomes
       /\ AbsentView(checked.view) => checked.err = "errInvalidMessage"

\* C17 amended: checkMessage answers one of Admit, Future, Old, Invalid and TooFar, or
\* the error of the last-committed-subject lookup, and that only for a Commit of a
\* view below the current one when the lookup fails; it answers Invalid whenever the
\* view, its sequence or its round is absent.
C17_FiveOutcomesOrLookupError ==
    checked.called
    => /\ checked.err \in FiveOutcomes \cup {"errLastSubject"}
       /\ checked.err = "errLastSubject"
            => /\ checked.msgCode = MsgCommit
               /\ ~lastSubject.ok
               /\ ~AbsentView(checked.view)
               /\ ViewCmp(checked.view, currentView) < 0
       /\ AbsentView(checked.view) => checked.err = "errInvalidMessage"

C17_Witness ==
    /\ checked.called
    /\ checked.msgCode = MsgCommit
    /\ ViewCmp(checked.view, currentView) < 0
    /\ ~lastSubject.ok
    /\ checked.err = "errLastSubject"

----------------------------------------------------------------------------
(* Claims about the backlog's counters and queues *)

RECURSIVE SumOver(_, _)
SumOver(f, S) == IF S = {} THEN 0
                 ELSE LET x == CHOOSE y \in S : TRUE IN f[x] + SumOver(f, S \ {x})

QueueSizes == [k \in DOMAIN backlogBySeq |-> BagCardinality(backlogBySeq[k])]

\* C1 as stated: no address's counter exceeds acceptMaxFutureMsgsFromOneValidator.
C1_PerValidatorCap ==
    \A a \in Validators : backlogCountByVal[a] <= acceptMaxFutureMsgsFromOneValidator

\* C2: when no handler holds backlogsMu, backlogTotal equals the sum of the
\* per-address counters and the sum of the sizes of the per-sequence queues.
C2_CountersAgree ==
    backlogsMu = "free"
    => /\ backlogTotal = SumOver(backlogCountByVal, Validators)
       /\ backlogTotal = SumOver(QueueSizes, DOMAIN backlogBySeq)

C2_Witness ==
    /\ ret.op = "processBacklog"
    /\ ret.stale # {}
    /\ posted # << >>
    /\ backlogTotal >= 2
    /\ \E a, b \in Validators : a # b /\ backlogCountByVal[a] > 0 /\ backlogCountByVal[b] > 0

\* C9: when processBacklog has returned, no queue is keyed below the current
\* sequence and no message of a sequence below the current one was posted.
C9_NoStaleQueueNoStalePost ==
    ret.op = "processBacklog"
    => /\ \A k \in DOMAIN backlogBySeq : k >= curSequence
       /\ \A i \in 1..Len(posted) : posted[i].View.Sequence >= curSequence

C9_Witness ==
    /\ ret.op = "processBacklog"
    /\ ret.stale = {1, 2}
    /\ curSequence = 3
    /\ DOMAIN backlogBySeq = {}
    /\ backlogTotal = 0
    /\ posted = << >>

\* C10 as stated: when storeBacklog returns after its pruning step ran, backlogTotal
\* is below acceptMaxFutureMessages.
C10_BelowCapAfterPruning ==
    (ret.op = "storeBacklog" /\ ret.pruneRan) => backlogTotal < acceptMaxFutureMessages

LowestSeq == CHOOSE k \in DOMAIN backlogBySeq : \A j \in DOMAIN backlogBySeq : k <= j

\* C10 amended: when storeBacklog returns after its pruning step ran and it left a
\* queue that is neither the lowest one nor keyed at or below the current sequence,
\* backlogTotal is below acceptMaxFutureMessages.
C10_BelowCapUnlessOnlyKeptQueues ==
    (/\ ret.op = "storeBacklog" /\ ret.pruneRan
     /\ \E k \in DOMAIN backlogBySeq : k > curSequence /\ k # LowestSeq)
    => backlogTotal < acceptMaxFutureMessages

C10_Witness ==
    /\ ret.op = "storeBacklog" /\ ret.pruneRan
    /\ \E k \in DOMAIN backlogBySeq : k > curSequence /\ k # LowestSeq
    /\ backlogTotal < acceptMaxFutureMessages

\* C13: a storeBacklog of a message whose address is the node's own leaves the queues
\* and both counters as they were, and no entry of the backlog carries that address.
C13_NoSelf ==
    /\ [](\A k \in DOMAIN backlogBySeq :
            \A i \in BagToSet(backlogBySeq[k]) : i.msg.Address # Address)
    /\ [][\A msg \in StoreInputs :
            (msg.Address = Address /\ handleFutureMsg(msg)) => UNCHANGED backlogVars]_vars

C13_Witness ==
    /\ ret.op = "storeBacklog"
    /\ ret.dropped = "self"
    /\ backlogTotal > 0

\* C19: when storeBacklog or processBacklog has returned, the backlog has a sequence
\* key only if backlogTotal is positive, backlogTotal is 0 exactly when it has no key,
\* and no queue of the map is empty.
C19_NoEmptyQueue ==
    ret.op \in {"storeBacklog", "processBacklog"}
    => /\ DOMAIN backlogBySeq # {} => backlogTotal > 0
       /\ backlogTotal = 0 <=> DOMAIN backlogBySeq = {}
       /\ \A k \in DOMAIN backlogBySeq : backlogBySeq[k] # EmptyBag

\* the message of the last store was pruned in the same call
C19_Witness ==
    /\ ret.op = "storeBacklog" /\ ret.pruneRan
    /\ ret.msg.View.Sequence \notin DOMAIN backlogBySeq
    /\ DOMAIN backlogBySeq # {}
    /\ backlogTotal > 0

\* C20 as stated: whatever the message and the sender argument of storeBacklog, no
\* address's counter is below 0.
C20_CountersNotNegative ==
    \A a \in Validators : backlogCountByVal[a] >= 0

----------------------------------------------------------------------------
(* Claims about the pruning step of storeBacklog *)

PruneBelow == acceptMaxFutureMessages - acceptMaxFutureMessagesPruneBatch

\* C11 as stated: when storeBacklog returns after its pruning step ran, either exactly
\* one sequence remains in the backlog or backlogTotal is below
\* acceptMaxFutureMessages - acceptMaxFutureMessagesPruneBatch.
C11_OneSequenceOrBelowBatch ==
    (ret.op = "storeBacklog" /\ ret.pruneRan)
    => \/ Cardinality(DOMAIN backlogBySeq) = 1
       \/ backlogTotal < PruneBelow

\* C11 amended: when storeBacklog returns after its pruning step ran, either exactly
\* one sequence remains, or backlogTotal is below acceptMaxFutureMessages -
\* acceptMaxFutureMessagesPruneBatch, or no remaining sequence is above the current one.
C11_PruningStops ==
    (ret.op = "storeBacklog" /\ ret.pruneRan)
    => \/ Cardinality(DOMAIN backlogBySeq) = 1
       \/ backlogTotal < PruneBelow
       \/ \A k \in DOMAIN backlogBySeq : k <= curSequence

C11_Witness ==
    /\ ret.op = "storeBacklog" /\ ret.pruneRan
    /\ Cardinality(DOMAIN backlogBySeq) = 2
    /\ backlogTotal >= PruneBelow
    /\ \A k \in DOMAIN backlogBySeq : k <= curSequence

\* the pruning step took the backlog from pushed to the next state's
PrunedFromTheTop(pushed) ==
    LET before == DOMAIN pushed.bySeq
        after == DOMAIN backlogBySeq'
        lowest == CHOOSE k \in before : \A j \in before : k <= j
    IN /\ after \subseteq before
       /\ \A k \in after : backlogBySeq'[k] = pushed.bySeq[k]
       /\ \A k \in before \ after : \A j \in after : k > j
       /\ lowest \in after
       /\ \A a \in Validators :
            backlogCountByVal'[a] >= CountOf(pushed.bySeq[lowest], a)
       /\ backlogTotal' = SumOver([k \in after |-> BagCardinality(pushed.bySeq[k])], after)

----------------------------------------------------------------------------
(* Claims about toPriority and the pop order of one queue *)

KindRank(code) ==
    CASE code = MsgPreprepare -> 1
      [] code = MsgCommit -> 2
      [] code = MsgPrepare -> 3
      [] OTHER -> 0

\* the items pushed so far
Pushed == BagToSet(backlogForSeq.queue)
            \cup {backlogForSeq.popped[n] : n \in 1..Len(backlogForSeq.popped)}

RoundOf(i) == i.msg.View.Round

\* the weighted value of every kind of round r fits a signed word
Unwrapped(r) == r * 10 + 3 < Modulus \div 2

\* C14 as stated: for two messages of one round, the priority of a Preprepare is below
\* that of a Commit and that of a Commit below that of a Prepare; the priority of a
\* RoundChange is 0 and below that of every message of another kind of its round.
C14_PreprepareLowest ==
    \A i, j \in Pushed :
        RoundOf(i) = RoundOf(j) =>
            /\ (i.msg.Code = MsgPreprepare /\ j.msg.Code = MsgCommit) => i.priority < j.priority
            /\ (i.msg.Code = MsgCommit /\ j.msg.Code = MsgPrepare) => i.priority < j.priority
            /\ i.msg.Code = MsgRoundChange => i.priority = 0
            /\ (i.msg.Code = MsgRoundChange /\ j.msg.Code # MsgRoundChange)
                    => i.priority < j.priority

\* C14 amended: for two messages of one round whose weighted values fit a signed word,
\* the priority of a Preprepare is above that of a Commit and that of a Commit above
\* that of a Prepare; the priority of a RoundChange is 0 and above that of every
\* message of another kind of its round.
C14_PreprepareHighest ==
    \A i, j \in Pushed :
        (RoundOf(i) = RoundOf(j) /\ Unwrapped(RoundOf(i))) =>
            /\ (i.msg.Code = MsgPreprepare /\ j.msg.Code = MsgCommit) => i.priority > j.priority
            /\ (i.msg.Code = MsgCommit /\ j.msg.Code = MsgPrepare) => i.priority > j.priority
            /\ i.msg.Code = MsgRoundChange => i.priority = 0
            /\ (i.msg.Code = MsgRoundChange /\ j.msg.Code # MsgRoundChange)
                    => i.priority > j.priority

C14_Witness ==
    \E i, j, k \in Pushed :
        /\ RoundOf(i) = MaxRound /\ RoundOf(j) = MaxRound /\ RoundOf(k) = MaxRound
        /\ i.msg.Code = MsgPreprepare /\ j.msg.Code = MsgCommit /\ k.msg.Code = MsgPrepare
        /\ i.priority > j.priority /\ j.priority > k.priority /\ 0 > i.priority

\* C15 as stated: the priority of a message that is no RoundChange is exactly
\* -(round * 10 + kindWeight), a negative number; that of a RoundChange is 0.
C15_ExactNegativePriority ==
    \A i \in Pushed :
        IF i.msg.Code = MsgRoundChange
        THEN i.priority = 0
        ELSE /\ i.priority = 0 - (RoundOf(i) * 10 + KindRank(i.msg.Code))
             /\ i.priority < 0

\* C16 as stated: of two messages of one queue that are no RoundChanges, the one of
\* the higher round is popped first.
C16_HigherRoundFirst ==
    \A m, n \in 1..Len(backlogForSeq.popped) :
        (/\ m < n
         /\ backlogForSeq.popped[m].msg.Code # MsgRoundChange
         /\ backlogForSeq.popped[n].msg.Code # MsgRoundChange)
        => RoundOf(backlogForSeq.popped[m]) >= RoundOf(backlogForSeq.popped[n])

\* C16 amended: of two messages of one queue that are no RoundChanges and whose
\* weighted values fit a signed word, the one of the lower round is popped first.
C16_LowerRoundFirst ==
    \A m, n \in 1..Len(backlogForSeq.popped) :
        (/\ m < n
         /\ backlogForSeq.popped[m].msg.Code # MsgRoundChange
         /\ backlogForSeq.popped[n].msg.Code # MsgRoundChange
         /\ Unwrapped(RoundOf(backlogForSeq.popped[m]))
         /\ Unwrapped(RoundOf(backlogForSeq.popped[n])))
        => RoundOf(backlogForSeq.popped[m]) <= RoundOf(backlogForSeq.popped[n])

C16_Witness ==
    /\ Len(backlogForSeq.popped) = 2
    /\ backlogForSeq.queue = EmptyBag
    /\ backlogForSeq.popped[1].msg.Code = MsgPrepare
    /\ RoundOf(backlogForSeq.popped[1]) = 0
    /\ backlogForSeq.popped[2].msg.Code = MsgPreprepare
    /\ RoundOf(backlogForSeq.popped[2]) = MaxRound

----------------------------------------------------------------------------
(* Claims about the replay *)

\* C3: the messages processBacklog replays from the queue of the current sequence
\* are posted with every RoundChange first and, within one round, Preprepare before
\* Commit before Prepare.
C3_ReplayOrder ==
    \A i, j \in 1..Len(posted) :
        i < j =>
            /\ posted[j].Code = MsgRoundChange => posted[i].Code = MsgRoundChange
            /\ (/\ posted[i].Code # MsgRoundChange
                /\ posted[j].Code # MsgRoundChange
                /\ posted[i].View.Round = posted[j].View.Round)
               => KindRank(posted[i].Code) <= KindRank(posted[j].Code)

C3_Witness ==
    /\ ret.op = "processBacklog"
    /\ curSequence = ReplaySeq
    /\ Len(posted) = 4
    /\ posted[1].Code = MsgRoundChange
    /\ posted[2].Code = MsgPreprepare
    /\ posted[3].Code = MsgCommit
    /\ posted[4].Code = MsgPrepare
    /\ \A i \in 1..4 : posted[i].View = View(ReplaySeq, 0)

\* C4 as stated: the events of one processBacklog reach the event bus in the order
\* in which the callback posted them: the k-th message to arrive is the k-th posted.
C4_BusOrderIsPostOrder ==
    \A k \in 1..Len(bus) : posted[bus[k]] = posted[k]

----------------------------------------------------------------------------
(* The replay and the thread behind the event bus.  The consumer takes the events *)
(* in their order of arrival; handling one, it calls processBacklog or            *)
(* storeBacklog, whose first statement is c.backlogsMu.Lock() (lines 191, 266).   *)
(* The network parks a message while fewer than MaxEvents are parked.             *)

\* the consumer receives the next backlog event
handleEvents ==
    /\ consumer.pc = "idle"
    /\ Taken < Len(bus)
    /\ consumer' = [pc |-> "Lock", taken |-> Taken + 1]
    /\ UNCHANGED <<backlogVars, backlogsMu, walk, engineVars, posted, bus, ret, checked,
                   backlogForSeq, restVars>>

\* lines 266-269, called by the consumer: it is the replaying thread until the return
consumerProcessBacklog ==
    /\ consumer.pc = "Lock"
    /\ backlogsMu = "free"
    /\ backlogsMu' = "held"
    /\ walk' = getSortedBacklogSeqs(Backlog)
    /\ ret' = NoRet
    /\ posted' = << >>
    /\ bus' = << >>
    /\ consumer' = [pc |-> "processBacklog", taken |-> 0]
    /\ UNCHANGED <<backlogVars, engineVars, checked, backlogForSeq, restVars>>

\* lines 149-224, called by the consumer for a message that checkMessage calls Future
consumerStoreBacklog(msg) ==
    /\ consumer.pc = "Lock"
    /\ msg.Address \in valSet
    /\ checkMessage(msg.Code, msg.View) = "errFutureMessage"
    /\ storeBacklog(msg, msg.Address)
    /\ consumer' = [pc |-> "idle", taken |-> 0]

processBacklogStep == processBacklogStale \/ processBacklogCurrent \/ processBacklogReturn

\* the round-0 RoundChanges of one sequence ahead, and one of the sequence after it
LiveInputs ==
    {Message(a, MsgRoundChange, View(ReplaySeq, 0)) : a \in Validators \ {Address}}
        \cup {Message("v1", MsgRoundChange, View(ReplaySeq + 1, 0))}

consumerLock == consumerProcessBacklog \/ \E msg \in LiveInputs : consumerStoreBacklog(msg)

MaxEvents == 2

NextLive ==
    \/ \E msg \in LiveInputs : backlogTotal < MaxEvents /\ handleFutureMsg(msg)
    \/ processBacklogLock
    \/ processBacklogStale
    \/ processBacklogCurrent
    \/ processBacklogReturn
    \/ \E i \in 1..Len(posted) : sendEvent(i)
    \/ handleEvents
    \/ consumerProcessBacklog
    \/ \E msg \in LiveInputs : consumerStoreBacklog(msg)
    \/ startNewSequence

(* The thread that holds backlogsMu keeps running (weak fairness of the replay's  *)
(* steps).  sync.Mutex does not starve a waiter: a Lock that has waited is handed *)
(* the mutex by the next Unlock, so a waiter that could take the mutex again and   *)
(* again does take it (strong fairness of the consumer's Lock).                    *)
SpecLive == Init /\ [][NextLive]_vars /\ WF_vars(processBacklogStep) /\ SF_vars(consumerLock)

\* C21: no interleaving of processBacklog, storeBacklog and the consumer of the event
\* bus deadlocks: the thread that holds backlogsMu can always take its next step,
\* and a consumer that has received a backlog event and waits at backlogsMu.Lock()
\* eventually holds the mutex
C21_ConsumerAcquiresMutex ==
    /\ [](backlogsMu = "held" => ENABLED processBacklogStep)
    /\ (consumer.pc = "Lock") ~> (consumer.pc # "Lock")

\* the consumer waits at Lock for an event of the replay that holds the mutex
C21_Witness ==
    /\ consumer.pc = "Lock"
    /\ backlogsMu = "held"
    /\ Len(posted) > Taken

----------------------------------------------------------------------------
(* storeBacklog called with any message: the round-0 RoundChanges of the          *)
(* sequences ahead, and messages whose payload does not decode, decodes to no     *)
(* view or to a view without sequence, or whose code is none of the four          *)

Malformed(msg) == decodeError(msg) \/ nilDereference(msg)

PayloadInputs ==
    {Message(a, MsgRoundChange, View(s, 0)) : a \in Validators \ {Address}, s \in 1..MaxSeq}
        \cup {Message("v1", code, view) :
                code \in {MsgPreprepare, MsgCommit},
                view \in {Undecodable, NilView, View(Nil, 0)}}
        \cup {Message("v1", MsgUnknown, View(ReplaySeq, 0))}

storeBacklogCall(msg) ==
    /\ backlogTotal < acceptMaxFutureMessages
    /\ Malformed(msg) \/ checkMessage(msg.Code, msg.View) = "errFutureMessage"
    /\ storeBacklog(msg, msg.Address)
    /\ UNCHANGED consumer

NextPayload ==
    \/ \E msg \in PayloadInputs : storeBacklogCall(msg)
    \/ processBacklogLock
    \/ processBacklogStale
    \/ processBacklogCurrent
    \/ processBacklogReturn
    \/ startNewSequence

SpecPayload == Init /\ [][NextPayload]_vars

\* C22: storeBacklog never fails fatally: for a payload that does not decode, a
\* decoded payload without view or with a view without sequence, or a code that is
\* none of the four, it returns normally and leaves every queue and both counters
\* unchanged
C22_MalformedReturnsUnchanged ==
    [][\A msg \in PayloadInputs :
          (Malformed(msg) /\ storeBacklogCall(msg))
              => (ret'.op = "storeBacklog" /\ UNCHANGED backlogVars)]_vars

----------------------------------------------------------------------------
(* The message set (messageSetImpl): Add, Remove, and the RLP round trip of       *)
(* TestMessageSetRLPEncoding.  raw is the encoding of ms as it is: a call that    *)
(* changes ms forgets it.                                                         *)

MaxCalls == 3

\* the senders: two validators and an address outside the validator set
SetAddresses == {"v1", "v2", "stranger"}
SetMessages ==
    {Message(a, code, View(1, 0)) : a \in SetAddresses, code \in {MsgPrepare, MsgCommit}}

Add_AnyAddress(msg) ==
    /\ Len(calls) < MaxCalls
    /\ calls' = Append(calls, [op |-> "Add", Address |-> msg.Address, msg |-> msg])
    /\ ms' = [ms EXCEPT !.messages =
                  [a \in DOMAIN @ \cup {msg.Address} |-> IF a = msg.Address THEN msg ELSE @[a]]]
    /\ err' = [op |-> "Add", err |-> "nil"]
    /\ raw' = NoRaw
    /\ UNCHANGED <<coreVars, result, gaspriceVars>>

\* part_001 lines 160-170
Add(msg) ==
    /\ Len(calls) < MaxCalls
    /\ calls' = Append(calls, [op |-> "Add", Address |-> msg.Address, msg |-> msg])
    /\ IF msg.Address \notin ms.valSet
       THEN /\ err' = [op |-> "Add", err |-> "ErrUnauthorizedAddress"]
            /\ UNCHANGED <<ms, raw>>
       ELSE /\ ms' = [ms EXCEPT !.messages =
                        [a \in DOMAIN @ \cup {msg.Address} |->
                            IF a = msg.Address THEN msg ELSE @[a]]]
            /\ err' = [op |-> "Add", err |-> "nil"]
            /\ raw' = NoRaw
    /\ UNCHANGED <<coreVars, result, gaspriceVars>>

\* part_001 lines 184-189
Remove(address) ==
    /\ Len(calls) < MaxCalls
    /\ calls' = Append(calls, [op |-> "Remove", Address |-> address, msg |-> NoMessage])
    /\ ms' = [ms EXCEPT !.messages = [a \in DOMAIN @ \ {address} |-> @[a]]]
    /\ err' = [op |-> "Remove", err |-> "nil"]
    /\ raw' = NoRaw
    /\ UNCHANGED <<coreVars, result, gaspriceVars>>

\* part_001 lines 202-206
Size == Cardinality(DOMAIN ms.messages)

\* the orders in which a range loop can visit the keys of a map
RECURSIVE KeyOrders(_)
KeyOrders(S) ==
    IF S = {}
    THEN {<< >>}
    ELSE UNION {{<<k>> \o o : o \in KeyOrders(S \ {k})} : k \in S}

\* part_001 lines 250-272: one range loop fills both lists, index by index
EncodeRLP ==
    /\ raw = NoRaw
    /\ \E order \in KeyOrders(DOMAIN ms.messages) :
          raw' = [valSet |-> ms.valSet,
                  messageKeys |-> order,
                  messageValues |-> [i \in 1..Len(order) |-> ms.messages[order[i]]]]
    /\ err' = [op |-> "EncodeRLP", err |-> "nil"]
    /\ UNCHANGED <<coreVars, ms, result, calls, gaspriceVars>>

\* part_001 lines 226-230: the fields of the struct that DecodeRLP decodes into
decoded ==
    <<[name |-> "valSet", exported |-> FALSE],
      [name |-> "messageKeys", exported |-> FALSE],
      [name |-> "messageValues", exported |-> FALSE]>>

\* rlp.Stream.Decode into a struct: the list elements go to the exported fields, in
\* order, one each; a list with more or fewer elements is an error
streamDecode(fields, elements) ==
    IF Len(SelectSeq(fields, LAMBDA f : f.exported)) < elements
    THEN "rlp: input list has too many elements"
    ELSE IF Len(SelectSeq(fields, LAMBDA f : f.exported)) > elements
    THEN "rlp: too few elements"
    ELSE "nil"

\* part_001 lines 267-271: the encoded list has three elements
rawElements == 3

\* part_001 lines 224-248, called as in lines 57-60
DecodeRLP ==
    /\ raw # NoRaw
    /\ err.op = "EncodeRLP"
    /\ IF streamDecode(decoded, rawElements) # "nil"
       THEN /\ err' = [op |-> "DecodeRLP", err |-> streamDecode(decoded, rawElements)]
            /\ UNCHANGED result
       ELSE /\ result' = [valSet |-> raw.valSet,
                          messages |-> [a \in {raw.messageKeys[i] : i \in 1..Len(raw.messageKeys)} |->
                                raw.messageValues[CHOOSE i \in 1..Len(raw.messageKeys) :
                                                    raw.messageKeys[i] = a]]]
            /\ err' = [op |-> "DecodeRLP", err |-> "nil"]
    /\ UNCHANGED <<coreVars, ms, raw, calls, gaspriceVars>>

NextMessageSet ==
    \/ \E msg \in SetMessages : Add(msg)
    \/ \E address \in SetAddresses : Remove(address)
    \/ EncodeRLP
    \/ DecodeRLP

SpecMessageSet == Init /\ [][NextMessageSet]_vars

\* C23: encoding a message set and decoding the result yields a message set equal
\* to the original: the same validator set and, for every address, the same message
C23_RoundTrip ==
    err.op = "DecodeRLP" => (err.err = "nil" /\ result = ms)

\* the calls made for an address, and the last of them
CallsFor(a) == SelectSeq(calls, LAMBDA c : c.Address = a)
LastCallFor(a) == CallsFor(a)[Len(CallsFor(a))]

\* C28: after any sequence of Add and Remove calls on a message set with a fixed
\* validator set, every address held is a member of the validator set and maps to
\* the message most recently added for it, so Size never exceeds the number of
\* validators; Add of a message whose address is not in the validator set returns
\* ErrUnauthorizedAddress and leaves the set unchanged
C28_HeldAreValidatorsLatestAdd ==
    /\ [](\A a \in DOMAIN ms.messages :
            /\ a \in ms.valSet
            /\ CallsFor(a) # << >>
            /\ LastCallFor(a).op = "Add"
            /\ ms.messages[a] = LastCallFor(a).msg)
    /\ [](Size <= Cardinality(ms.valSet))
    /\ [][ms'.valSet = ms.valSet]_vars
    /\ [][\A msg \in SetMessages :
            (msg.Address \notin ms.valSet /\ Add(msg))
                => (err'.err = "ErrUnauthorizedAddress" /\ ms' = ms)]_vars

\* a second Add has replaced the message of v1, and the Add of a stranger was refused
C28_Witness ==
    /\ Len(calls) = 3
    /\ calls[1].op = "Add" /\ calls[1].Address = "v1"
    /\ calls[2].op = "Add" /\ calls[2].Address = "v1" /\ calls[2].msg # calls[1].msg
    /\ calls[3].op = "Add" /\ calls[3].Address = "stranger"
    /\ err = [op |-> "Add", err |-> "ErrUnauthorizedAddress"]
    /\ ms.messages["v1"] = calls[2].msg

----------------------------------------------------------------------------
(* Claims about what a replay posts and what it leaves *)

\* the messages in the queues
Parked == UNION {{i.msg : i \in BagToSet(backlogBySeq[k])} : k \in DOMAIN backlogBySeq}

\* C24: processBacklog posts a parked message of the current sequence only if
\* checkMessage admits it at replay time; a message whose re-check answers Future
\* or anything else is dropped and not parked again, so after processBacklog
\* returns no queue of the current sequence is left and the counters do not count
\* its entries
C24_PostsAdmittedDropsTheRest ==
    ret.op = "processBacklog"
    => /\ \A i \in 1..Len(posted) : checkMessage(posted[i].Code, posted[i].View) = "nil"
       /\ \A m \in ret.skipped :
            /\ m \notin Parked
            /\ \A i \in 1..Len(posted) : posted[i] # m
       /\ curSequence \notin DOMAIN backlogBySeq
       /\ backlogTotal = SumOver(QueueSizes, DOMAIN backlogBySeq)
       /\ \A a \in Validators :
            backlogCountByVal[a] =
                SumOver([k \in DOMAIN backlogBySeq |-> CountOf(backlogBySeq[k], a)],
                        DOMAIN backlogBySeq)

\* a replay has posted a message and dropped one that checkMessage calls Future
C24_Witness ==
    /\ ret.op = "processBacklog"
    /\ posted # << >>
    /\ \E m \in ret.skipped : checkMessage(m.Code, m.View) = "errFutureMessage"
    /\ backlogTotal = 0

\* the entries of an address in the queues a step has removed
Drained(a) ==
    SumOver([k \in DOMAIN backlogBySeq |-> CountOf(backlogBySeq[k], a)],
            (DOMAIN backlogBySeq) \ (DOMAIN backlogBySeq'))

\* C25: processBacklog leaves every queue keyed by a sequence greater than the
\* current one unchanged (same messages, same priorities), does not change what
\* those messages contribute to the counters, and posts none of them
C25_LaterQueuesUntouched ==
    [][(processBacklogLock \/ processBacklogStep)
        => /\ \A k \in DOMAIN backlogBySeq :
                k > curSequence
                    => (k \in DOMAIN backlogBySeq' /\ backlogBySeq'[k] = backlogBySeq[k])
           /\ \A k \in DOMAIN backlogBySeq' : k \in DOMAIN backlogBySeq
           /\ \A a \in Validators : backlogCountByVal'[a] = backlogCountByVal[a] - Drained(a)
           /\ backlogTotal' = backlogTotal - SumOver([a \in Validators |-> Drained(a)], Validators)
           /\ \A i \in 1..Len(posted') : posted'[i].View.Sequence <= curSequence]_vars

\* a replay has drained or posted something and returned with a later queue in place
C25_Witness ==
    /\ ret.op = "processBacklog"
    /\ posted # << >> \/ ret.stale # {}
    /\ \E k \in DOMAIN backlogBySeq : k > curSequence

----------------------------------------------------------------------------
(* The backlog while validators leave the validator set between two handlers *)

\* the engine takes up a validator set that an address has left
removeValidator(a) ==
    /\ backlogsMu = "free"
    /\ a \in valSet \ {Address}
    /\ valSet' = valSet \ {a}
    /\ Forget
    /\ UNCHANGED <<backlogVars, backlogsMu, walk, curSequence, curRound, desiredRound, state,
                   lastSubject, checked, backlogForSeq, consumer, restVars>>

NextValSet ==
    \/ \E msg \in StoreInputs : handleFutureMsg(msg)
    \/ processBacklogLock
    \/ processBacklogStale
    \/ processBacklogCurrent
    \/ processBacklogReturn
    \/ startNewSequence
    \/ \E a \in Validators : removeValidator(a)

SpecValSet == Init /\ [][NextValSet]_vars

\* C26: when a queue is drained with a callback, an entry whose sender is no longer
\* in the validator set is removed without the callback being invoked (nothing is
\* posted for it), both counters are still decremented by one for it, and after the
\* drain the key of the queue is deleted
C26_AbsentSenderDrainedNotPosted ==
    [][processBacklogCurrent
        => /\ \A i \in 1..Len(posted') : posted'[i].Address \in valSet
           /\ \A a \in Validators \ valSet :
                backlogCountByVal'[a] = backlogCountByVal[a] - CountOf(backlogBySeq[curSequence], a)
           /\ backlogTotal' = backlogTotal - BagCardinality(backlogBySeq[curSequence])
           /\ curSequence \notin DOMAIN backlogBySeq'
           /\ \A m \in Parked' : m.View.Sequence # curSequence]_vars

\* a replay has dropped a message that checkMessage admits, its sender having left
\* the validator set, and posted another
C26_Witness ==
    /\ ret.op = "processBacklog"
    /\ \E m \in ret.skipped : m.Address \notin valSet /\ admitted(m)
    /\ posted # << >>
    /\ \A a \in Validators \ valSet : backlogCountByVal[a] = 0
    /\ curSequence \notin DOMAIN backlogBySeq

----------------------------------------------------------------------------
(* The replay of one sequence through its rounds: the inputs and steps of         *)
(* SpecReplay without the arrivals at the event bus                               *)

NextRounds ==
    \/ \E msg \in ReplayInputs :
          backlogTotal < acceptMaxFutureMessages /\ handleFutureMsg(msg)
    \/ processBacklogLock
    \/ processBacklogStale
    \/ processBacklogCurrent
    \/ processBacklogReturn
    \/ startNewSequence
    \/ waitForDesiredRound
    \/ startNewRound
    \/ setState

SpecRounds == Init /\ [][NextRounds]_vars

\* the messages a step has posted
NewPosts == {posted'[i] : i \in (Len(posted) + 1)..Len(posted')}

\* the messages of a queue
MessagesOf(q) == {i.msg : i \in BagToSet(q)}

----------------------------------------------------------------------------
(* The gas-price-floor cache (access_gasprice.go).  GetGasPriceFloor holds cacheMu *)
(* from line 146 to its return; the chain's current header is not under cacheMu   *)
(* and moves on while a call is in progress.                                      *)

MaxHead == 3

Currencies == {"gold", "usd"}

\* line 130
fallbackGasPriceFloor == [header |-> ZeroHash, currency |-> "fallback"]

\* the floor the oracle contract holds for a currency in the state of a header
floorAt(h, c) == [header |-> h, currency |-> c]

\* lines 150-153: the cache after the comparison of the header hashes
flushed == IF cacheHeaderHash # currentHeaderHash
           THEN [c \in {} |-> NoFloor]
           ELSE gasPriceFloorCache

\* lines 129-165: up to a return or to the oracle call.  nilParameters: iEvmH or
\* regAdd is nil; goldToken and oracle: what the registry holds for the two ids
GetGasPriceFloor(nilParameters, currencyAddress, goldToken, oracle) ==
    /\ gasPriceFloor.pc = "idle"
    /\ LET currency == IF currencyAddress = "nil" THEN goldToken ELSE currencyAddress
       IN IF nilParameters
          THEN /\ gasPriceFloor' = [NoCall EXCEPT !.value = fallbackGasPriceFloor,
                                                 !.err = "nil iEvmH or addressRegistry"]
               /\ UNCHANGED <<gasPriceFloorCache, cacheHeaderHash>>
          ELSE IF currency = "nil"
          THEN /\ gasPriceFloor' = [NoCall EXCEPT !.value = fallbackGasPriceFloor,
                                                 !.err = "no goldtoken contract address found"]
               /\ UNCHANGED <<gasPriceFloorCache, cacheHeaderHash>>
          ELSE /\ cacheHeaderHash' = currentHeaderHash
               /\ gasPriceFloorCache' = flushed
               /\ gasPriceFloor' =
                    IF currency \in DOMAIN flushed
                    THEN [NoCall EXCEPT !.currency = currency, !.value = flushed[currency],
                                        !.cached = TRUE]
                    ELSE IF oracle = "nil"
                    THEN [NoCall EXCEPT !.currency = currency, !.value = fallbackGasPriceFloor,
                                        !.err = "errNoGasPriceOracle"]
                    ELSE [NoCall EXCEPT !.pc = "MakeStaticCall", !.currency = currency]
    /\ UNCHANGED <<coreVars, messageSetVars, currentHeaderHash>>

\* lines 166-179: the oracle call, made with a nil header and a nil state: it reads
\* the state of the header that is current when it runs
MakeStaticCall(ok) ==
    /\ gasPriceFloor.pc = "MakeStaticCall"
    /\ IF ok
       THEN /\ gasPriceFloorCache' =
                    [c \in DOMAIN gasPriceFloorCache \cup {gasPriceFloor.currency} |->
                        IF c = gasPriceFloor.currency
                        THEN floorAt(currentHeaderHash, c)
                        ELSE gasPriceFloorCache[c]]
            /\ gasPriceFloor' = [gasPriceFloor EXCEPT
                                    !.pc = "idle",
                                    !.value = floorAt(currentHeaderHash, gasPriceFloor.currency)]
       ELSE /\ gasPriceFloor' = [gasPriceFloor EXCEPT !.pc = "idle", !.err = "err"]
            /\ UNCHANGED gasPriceFloorCache
    /\ UNCHANGED <<coreVars, messageSetVars, cacheHeaderHash, currentHeaderHash>>

\* the chain takes up its next block
insertChain ==
    /\ currentHeaderHash < MaxHead
    /\ currentHeaderHash' = currentHeaderHash + 1
    /\ UNCHANGED <<coreVars, messageSetVars, gasPriceFloorCache, cacheHeaderHash, gasPriceFloor>>

NextGasPrice ==
    \/ \E nilParameters \in BOOLEAN, currencyAddress \in Currencies \cup {"nil"},
          goldToken \in {"gold", "nil"}, oracle \in {"oracle", "nil"} :
            GetGasPriceFloor(nilParameters, currencyAddress, goldToken, oracle)
    \/ \E ok \in BOOLEAN : MakeStaticCall(ok)
    \/ insertChain

SpecGasPrice == Init /\ [][NextGasPrice]_vars

\* C29: after any GetGasPriceFloor calls interleaved with changes of the current
\* header, every entry of the cache was stored by a successful oracle call made
\* while the current header hash equalled the recorded cacheHeaderHash; a value
\* served from the cache is never one fetched under an earlier header, and a failed
\* oracle call stores nothing
C29_EntriesOfRecordedHeader ==
    /\ \A c \in DOMAIN gasPriceFloorCache : gasPriceFloorCache[c] = floorAt(cacheHeaderHash, c)
    /\ gasPriceFloor.cached => gasPriceFloor.value.header >= cacheHeaderHash
    /\ (gasPriceFloor.pc = "idle" /\ gasPriceFloor.err # "nil" /\ gasPriceFloor.currency # "none")
            => gasPriceFloor.currency \notin DOMAIN gasPriceFloorCache
====
